---- MODULE Spec2Model ----
(***************************************************************************)
(* LustreOstFileMigrationTaskGenerator                                     *)
(* (task/generator/lustre_ost_file_migration_task_generator.py).           *)
(*                                                                         *)
(* The generator process is modelled statement group by statement group    *)
(* (variable pc), together with its environment: the executors that take   *)
(* tasks from the task queue and put correlation ids on the result queue,  *)
(* the intake directory that receives batch files, the fill-level sampler  *)
(* and the SIGTERM signal.  Python strings are sequences of one-character  *)
(* strings, so that strip(), split() and the tid round trip are computed.  *)
(* Python dicts are ordered: a dict is a record [keys, val] whose keys     *)
(* field holds the insertion order.                                        *)
(***************************************************************************)
EXTENDS Integers, Sequences, FiniteSets, TLC

VARIABLES
    pc,                     \* position of the generator process in run()
    in_startup,             \* TRUE while run() is before its while loop (lines 104-122)
    run_flag,               \* self.run_flag
    ost_source_cache_dict,  \* self.ost_source_cache_dict: ost -> list of items
    ost_source_state_dict,  \* self.ost_source_state_dict: ost -> OSTState
    ost_target_state_dict,  \* self.ost_target_state_dict: ost -> OSTState
    ost_fill_level_dict,    \* self.ost_fill_level_dict:   ost -> fill level
    task_queue,             \* self.task_queue (shared with the executors)
    lock_task_queue,        \* holder of self.lock_task_queue
    result_queue,           \* self.result_queue (shared with the executors)
    lock_result_queue,      \* holder of self.lock_result_queue
    running,                \* tids of the tasks an executor has taken and not finished
    input_dir,              \* file name -> "absent" | "input" | "done"
    files,                  \* _process_input_files: the listing still to visit
    file_counter,           \* _process_input_files: file_counter
    source_idx,             \* run(): position of the for loop of line 128
    task,                   \* run(): the task built at lines 138-145 (or NoTask)
    finished,               \* run(): <<source_ost, target_ost>> of line 165 (or <<>>)
    timers,                 \* how many timer firings the model has left
    sigterm,                \* a SIGTERM has been delivered to the process
    pass_begin,             \* history: the three dicts when the pairing pass began
    pass_tasks,             \* history: the tasks pushed by the running pairing pass
    load_log                \* the counters logged at line 310 for the last loaded file

vars == << pc, in_startup, run_flag, ost_source_cache_dict, ost_source_state_dict,
           ost_target_state_dict, ost_fill_level_dict, task_queue, lock_task_queue,
           result_queue, lock_result_queue, running, input_dir, files, file_counter,
           source_idx, task, finished, timers, sigterm, pass_begin, pass_tasks,
           load_log >>

----------------------------------------------------------------------------
(* Bounds of the model.                                                    *)

\* how many batch files of the catalog may arrive in the intake directory
MaxFiles == 2
\* how many times a maintenance timer (fill-level refresh, re-scan) may fire
MaxTimers == 2

----------------------------------------------------------------------------
(* enum OSTState                                                           *)

READY == "READY"
LOCKED == "LOCKED"
BLOCKED == "BLOCKED"
PENDING_LOCK == "PENDING_LOCK"
OSTState == {READY, LOCKED, BLOCKED, PENDING_LOCK}

----------------------------------------------------------------------------
(* Python strings and their methods.                                       *)

Whitespace == {" ", "\t", "\n"}

\* str.strip(): without leading and trailing whitespace
RECURSIVE lstrip(_)
lstrip(s) ==
    IF s # <<>> /\ Head(s) \in Whitespace THEN lstrip(Tail(s)) ELSE s

RECURSIVE rstrip(_)
rstrip(s) ==
    IF s # <<>> /\ s[Len(s)] \in Whitespace
    THEN rstrip(SubSeq(s, 1, Len(s) - 1))
    ELSE s

strip(s) == rstrip(lstrip(s))

\* str.split(): the maximal runs of non-whitespace characters
RECURSIVE split_ws(_, _, _)
split_ws(s, cur, acc) ==
    IF s = <<>>
    THEN IF cur = <<>> THEN acc ELSE Append(acc, cur)
    ELSE IF Head(s) \in Whitespace
         THEN split_ws(Tail(s), <<>>, IF cur = <<>> THEN acc ELSE Append(acc, cur))
         ELSE split_ws(Tail(s), Append(cur, Head(s)), acc)

split(s) == split_ws(s, <<>>, <<>>)

\* str.split(sep) for a one-character sep: empty fields are kept
RECURSIVE split_sep(_, _, _, _)
split_sep(s, sep, cur, acc) ==
    IF s = <<>>
    THEN Append(acc, cur)
    ELSE IF Head(s) = sep
         THEN split_sep(Tail(s), sep, <<>>, Append(acc, cur))
         ELSE split_sep(Tail(s), sep, Append(cur, Head(s)), acc)

split_on(s, sep) == split_sep(s, sep, <<>>, <<>>)

\* sub in s
contains(s, sub) ==
    \E i \in 0 .. (Len(s) - Len(sub)) : SubSeq(s, i + 1, i + Len(sub)) = sub

----------------------------------------------------------------------------
(* Python dicts: keys in insertion order, and the values.                  *)

EmptyDict == [keys |-> <<>>, val |-> <<>>]

Has(d, k) == k \in DOMAIN d.val

Get(d, k) == d.val[k]

\* d[k] = v
Put(d, k, v) ==
    IF Has(d, k)
    THEN [d EXCEPT !.val[k] = v]
    ELSE [keys |-> Append(d.keys, k), val |-> (k :> v) @@ d.val]

RECURSIVE without(_, _)
without(s, k) ==
    IF s = <<>> THEN <<>>
    ELSE IF Head(s) = k THEN without(Tail(s), k)
         ELSE <<Head(s)>> \o without(Tail(s), k)

\* del d[k]
Del(d, k) ==
    [keys |-> without(d.keys, k),
     val |-> [x \in (DOMAIN d.val) \ {k} |-> d.val[x]]]

Keys(d) == DOMAIN d.val

----------------------------------------------------------------------------
(* Configuration, the file system and the intake catalog.                  *)

OstA == <<"A">>
OstB == <<"B">>
OstC == <<"C">>
OstD == <<"D">>

\* the OSTs of the file system
OSTs == {OstA, OstB, OstC, OstD}

\* config: lustre.migration/ost_targets, split at ","
ost_target_list == <<OstB, OstC, OstD>>

\* config: lustre.migration/ost_fill_threshold
ost_fill_threshold == 50

\* the fill levels a sample may report for an OST: on both sides of the
\* comparison of each role the OST is configured or fed for, and the threshold
\* itself (A is fed as a source only, C and D are destinations, B is both)
FillLevels(ost) ==
    IF ost = OstA THEN {ost_fill_threshold, ost_fill_threshold + 10}
    ELSE IF ost = OstB
         THEN {ost_fill_threshold - 10, ost_fill_threshold, ost_fill_threshold + 10}
         ELSE {ost_fill_threshold - 10, ost_fill_threshold}

\* what retrieve_ost_fill_level() may return: a level for every OST
FillSamples ==
    { f \in [OSTs -> {ost_fill_threshold - 10, ost_fill_threshold, ost_fill_threshold + 10}] :
        \A ost \in OSTs : f[ost] \in FillLevels(ost) }

\* BaseMessage.field_separator
field_separator == <<"|">>

\* the batch files that may arrive in input_dir, with their lines
FileNames == <<"b1", "b2", "b3">>

FileLines(name) ==
    CASE name = "b1" ->
            << <<"A", " ", "x", "\n">>,
               <<"A", "\t", "y", "\t", "z", "\n">>,
               <<"B", " ", "y", "\n">> >>
      [] name = "b2" ->
            << <<"B", " ", "x", "|", "w", "\n">>,
               <<" ", "B", " ", " ", "z", " ", "\n">>,
               <<"\n">> >>
      [] OTHER ->
            << <<"B", " ", "v", "\n">>,
               <<"A">>,
               <<"A", " ", "w", "\n">> >>

\* the catalog files the model lets arrive
Arriving == { FileNames[i] : i \in 1 .. (IF MaxFiles < Len(FileNames) THEN MaxFiles ELSE Len(FileNames)) }

----------------------------------------------------------------------------
(* class LustreOstMigrateItem, OstMigrateTask                              *)

LustreOstMigrateItem(ost, filename) == [ost |-> ost, filename |-> filename]

NoTask == [tid |-> <<>>]

\* OstMigrateTask(source_ost, target_ost, item.filename) with
\* task.tid = f"{source_ost}:{target_ost}"
OstMigrateTask(source_ost, target_ost, filename) ==
    [tid |-> source_ost \o <<":">> \o target_ost,
     source |-> source_ost, target |-> target_ost, filename |-> filename]

----------------------------------------------------------------------------
(* The target state machine: _update_ost_state_dict.                       *)

\* operator.ge and operator.le in the place of operator.gt and operator.lt
operator_func_inclusive(operator_func, a, b) ==
    IF operator_func = "gt" THEN a >= b ELSE a <= b

\* operator.gt, operator.lt
operator_func_apply(operator_func, a, b) ==
    IF operator_func = "gt" THEN a > b ELSE a < b

Ok(d) == [err |-> "", dict |-> d]
Raise(e, d) == [err |-> e, dict |-> d]

\* _update_ost_state_dict with three of its assignments as parameters: what
\* a completion makes of PENDING_LOCK, and what an ineligible sample makes of
\* BLOCKED and of PENDING_LOCK (the code has LOCKED, PENDING_LOCK, PENDING_LOCK)
update_variant(ost, ost_state_dict, operator_func, fill_level_dict,
               done_pending, full_blocked, full_pending) ==
    IF operator_func # "None"
    THEN IF ost \notin DOMAIN fill_level_dict
         THEN Raise("RuntimeError", ost_state_dict)
         ELSE IF operator_func_apply(operator_func, fill_level_dict[ost], ost_fill_threshold)
              THEN IF Has(ost_state_dict, ost)
                   THEN IF Get(ost_state_dict, ost) = LOCKED
                        THEN Ok(Put(ost_state_dict, ost, READY))
                        ELSE Ok(ost_state_dict)
                   ELSE Ok(Put(ost_state_dict, ost, READY))
              ELSE IF Has(ost_state_dict, ost)
                   THEN IF Get(ost_state_dict, ost) = READY
                        THEN Ok(Put(ost_state_dict, ost, LOCKED))
                        ELSE IF Get(ost_state_dict, ost) = BLOCKED
                             THEN Ok(Put(ost_state_dict, ost, full_blocked))
                             ELSE IF Get(ost_state_dict, ost) = PENDING_LOCK
                                  THEN Ok(Put(ost_state_dict, ost, full_pending))
                                  ELSE Ok(ost_state_dict)
                   ELSE Ok(Put(ost_state_dict, ost, LOCKED))
    ELSE IF ~Has(ost_state_dict, ost)
         THEN Raise("KeyError", ost_state_dict)
         ELSE IF Get(ost_state_dict, ost) = BLOCKED
              THEN Ok(Put(ost_state_dict, ost, READY))
              ELSE IF Get(ost_state_dict, ost) = PENDING_LOCK
                   THEN Ok(Put(ost_state_dict, ost, done_pending))
                   ELSE Raise("RuntimeError", ost_state_dict)

\* a completion makes READY of PENDING_LOCK too
update_done_pending_ready(ost, ost_state_dict, operator_func, fill_level_dict) ==
    update_variant(ost, ost_state_dict, operator_func, fill_level_dict,
                   READY, PENDING_LOCK, PENDING_LOCK)

\* an ineligible sample makes LOCKED of BLOCKED, as it does of READY
update_full_blocked_locked(ost, ost_state_dict, operator_func, fill_level_dict) ==
    update_variant(ost, ost_state_dict, operator_func, fill_level_dict,
                   LOCKED, LOCKED, PENDING_LOCK)

\* an ineligible sample moves PENDING_LOCK on to LOCKED
update_full_pending_locked(ost, ost_state_dict, operator_func, fill_level_dict) ==
    update_variant(ost, ost_state_dict, operator_func, fill_level_dict,
                   LOCKED, PENDING_LOCK, LOCKED)

\* _update_ost_state_dict without the test of lines 373-374: an OST that the
\* sample does not report keeps its state
update_unknown_ignored(ost, ost_state_dict, operator_func, fill_level_dict) ==
    IF operator_func # "None" /\ ost \notin DOMAIN fill_level_dict
    THEN Ok(ost_state_dict)
    ELSE update_variant(ost, ost_state_dict, operator_func, fill_level_dict,
                        LOCKED, PENDING_LOCK, PENDING_LOCK)

\* _update_ost_state_dict without the raise of line 408: a completion for a
\* state that is neither BLOCKED nor PENDING_LOCK is passed over
update_done_idle_ignored(ost, ost_state_dict, operator_func, fill_level_dict) ==
    IF /\ operator_func = "None"
       /\ Has(ost_state_dict, ost)
       /\ Get(ost_state_dict, ost) \notin {BLOCKED, PENDING_LOCK}
    THEN Ok(ost_state_dict)
    ELSE update_variant(ost, ost_state_dict, operator_func, fill_level_dict,
                        LOCKED, PENDING_LOCK, PENDING_LOCK)

\* _update_ost_state_dict(ost, ost_state_dict, operator_func): the dict after
\* the call, and the exception it raised ("" when none)
_update_ost_state_dict(ost, ost_state_dict, operator_func, fill_level_dict) ==
    IF operator_func # "None"
    THEN IF ost \notin DOMAIN fill_level_dict
         THEN Raise("RuntimeError", ost_state_dict)
         ELSE IF operator_func_apply(operator_func, fill_level_dict[ost], ost_fill_threshold)
              THEN IF Has(ost_state_dict, ost)
                   THEN IF Get(ost_state_dict, ost) = LOCKED
                        THEN Ok(Put(ost_state_dict, ost, READY))
                        ELSE Ok(ost_state_dict)
                   ELSE Ok(Put(ost_state_dict, ost, READY))
              ELSE IF Has(ost_state_dict, ost)
                   THEN IF Get(ost_state_dict, ost) = READY
                        THEN Ok(Put(ost_state_dict, ost, LOCKED))
                        ELSE IF Get(ost_state_dict, ost) = BLOCKED
                             THEN Ok(Put(ost_state_dict, ost, PENDING_LOCK))
                             ELSE Ok(ost_state_dict)
                   ELSE Ok(Put(ost_state_dict, ost, LOCKED))
    ELSE IF ~Has(ost_state_dict, ost)
         THEN Raise("KeyError", ost_state_dict)
         ELSE IF Get(ost_state_dict, ost) = BLOCKED
              THEN Ok(Put(ost_state_dict, ost, READY))
              ELSE IF Get(ost_state_dict, ost) = PENDING_LOCK
                   THEN Ok(Put(ost_state_dict, ost, LOCKED))
                   ELSE Raise("RuntimeError", ost_state_dict)

_update_ost_source_state_dict(ost, source_state_dict, fill_level_dict) ==
    _update_ost_state_dict(ost, source_state_dict, "gt", fill_level_dict)

\* _update_ost_target_state_dict with operator.gt, as for the source role
update_target_as_source(ost, target_state_dict, fill_level_dict) ==
    _update_ost_state_dict(ost, target_state_dict, "gt", fill_level_dict)

_update_ost_target_state_dict(ost, target_state_dict, fill_level_dict) ==
    _update_ost_state_dict(ost, target_state_dict, "lt", fill_level_dict)

\* for ost in osts: self._update_ost_source_state_dict(ost), or the same for
\* the destination role, stopping at the first exception
RECURSIVE update_each(_, _, _, _)
update_each(osts, state_dict, operator_func, fill_level_dict) ==
    IF osts = <<>>
    THEN Ok(state_dict)
    ELSE LET r == IF operator_func = "gt"
                  THEN _update_ost_source_state_dict(Head(osts), state_dict, fill_level_dict)
                  ELSE _update_ost_target_state_dict(Head(osts), state_dict, fill_level_dict)
         IN IF r.err # "" THEN r
            ELSE update_each(Tail(osts), r.dict, operator_func, fill_level_dict)

\* _init_ost_target_state_dict
_init_ost_target_state_dict(target_state_dict, fill_level_dict) ==
    update_each(ost_target_list, target_state_dict, "lt", fill_level_dict)

----------------------------------------------------------------------------
(* Input ingestion: _load_input_file, _allocate_ost_source_caches.         *)

\* load_line without the test of line 289: a line with the separator is loaded
load_line_separator_unchecked(line, r) ==
    LET tokens == split(strip(line))
    IN IF Len(tokens) # 2
       THEN [r EXCEPT !.skipped = @ + 1]
       ELSE LET ost == tokens[1]
                cache == IF Has(r.cache, ost) THEN r.cache ELSE Put(r.cache, ost, <<>>)
            IN [cache |-> Put(cache, ost, Append(Get(cache, ost),
                                                 LustreOstMigrateItem(ost, tokens[2]))),
                loaded |-> r.loaded + 1,
                skipped |-> r.skipped]

\* one line of the for loop of _load_input_file (lines 287-308)
load_line(line, r) ==
    LET stripped_line == strip(line)
        tokens == split(stripped_line)
    IN IF contains(stripped_line, field_separator)
       THEN [r EXCEPT !.skipped = @ + 1]
       ELSE IF Len(tokens) # 2
            THEN [r EXCEPT !.skipped = @ + 1]   \* ValueError: skipped
            ELSE LET ost == tokens[1]
                     migrate_item == LustreOstMigrateItem(ost, tokens[2])
                     cache == IF Has(r.cache, ost) THEN r.cache ELSE Put(r.cache, ost, <<>>)
                 IN [cache |-> Put(cache, ost, Append(Get(cache, ost), migrate_item)),
                     loaded |-> r.loaded + 1,
                     skipped |-> r.skipped]

RECURSIVE load_lines(_, _)
load_lines(lines, r) ==
    IF lines = <<>> THEN r ELSE load_lines(Tail(lines), load_line(Head(lines), r))

\* _load_input_file(file_path): the cache after the call and the two counters
_load_input_file(lines, source_cache_dict) ==
    load_lines(lines, [cache |-> source_cache_dict, loaded |-> 0, skipped |-> 0])

\* the for loop of _allocate_ost_source_caches (lines 317-332)
RECURSIVE allocate_scan(_, _, _, _, _)
allocate_scan(keys, source_cache_dict, source_state_dict, del_ost_source_list, fill_level_dict) ==
    IF keys = <<>>
    THEN [err |-> "", state |-> source_state_dict, del |-> del_ost_source_list]
    ELSE LET ost == Head(keys)
         IN IF Len(Get(source_cache_dict, ost)) > 0
            THEN IF ~Has(source_state_dict, ost)
                 THEN LET r == _update_ost_source_state_dict(ost, source_state_dict, fill_level_dict)
                      IN IF r.err # ""
                         THEN [err |-> r.err, state |-> r.dict, del |-> del_ost_source_list]
                         ELSE allocate_scan(Tail(keys), source_cache_dict, r.dict,
                                            del_ost_source_list, fill_level_dict)
                 ELSE allocate_scan(Tail(keys), source_cache_dict, source_state_dict,
                                    del_ost_source_list, fill_level_dict)
            ELSE IF ~Has(source_state_dict, ost)
                 THEN [err |-> "KeyError", state |-> source_state_dict, del |-> del_ost_source_list]
                 ELSE IF Get(source_state_dict, ost) = READY \/ Get(source_state_dict, ost) = LOCKED
                      THEN allocate_scan(Tail(keys), source_cache_dict, source_state_dict,
                                         Append(del_ost_source_list, ost), fill_level_dict)
                      ELSE allocate_scan(Tail(keys), source_cache_dict, source_state_dict,
                                         del_ost_source_list, fill_level_dict)

RECURSIVE del_each(_, _)
del_each(d, osts) ==
    IF osts = <<>> THEN d ELSE del_each(Del(d, Head(osts)), Tail(osts))

\* _allocate_ost_source_caches without the len(cache) test of line 319: every
\* READY or LOCKED source is pruned, drained or not
allocate_prune_undrained(source_cache_dict, source_state_dict, fill_level_dict) ==
    LET r == allocate_scan(source_cache_dict.keys, source_cache_dict, source_state_dict,
                           <<>>, fill_level_dict)
        idle(ost) == Get(r.state, ost) \in {READY, LOCKED}
        del == SelectSeq(source_cache_dict.keys, idle)
    IN IF r.err # ""
       THEN [err |-> r.err, cache |-> source_cache_dict, state |-> r.state]
       ELSE [err |-> "",
             cache |-> del_each(source_cache_dict, del),
             state |-> del_each(r.state, del)]

\* _allocate_ost_source_caches without the state test of lines 325-326: every
\* drained source is pruned, in flight or not
allocate_prune_inflight(source_cache_dict, source_state_dict, fill_level_dict) ==
    LET r == allocate_scan(source_cache_dict.keys, source_cache_dict, source_state_dict,
                           <<>>, fill_level_dict)
        drained(ost) == Get(source_cache_dict, ost) = <<>>
        del == SelectSeq(source_cache_dict.keys, drained)
    IN IF r.err # ""
       THEN [err |-> r.err, cache |-> source_cache_dict, state |-> r.state]
       ELSE [err |-> "",
             cache |-> del_each(source_cache_dict, del),
             state |-> del_each(r.state, del)]

\* _allocate_ost_source_caches without the del of line 339: the state entry
\* of a pruned source stays
allocate_prune_cache_only(source_cache_dict, source_state_dict, fill_level_dict) ==
    LET r == allocate_scan(source_cache_dict.keys, source_cache_dict, source_state_dict,
                           <<>>, fill_level_dict)
    IN IF r.err # ""
       THEN [err |-> r.err, cache |-> source_cache_dict, state |-> r.state]
       ELSE [err |-> "", cache |-> del_each(source_cache_dict, r.del), state |-> r.state]

\* _allocate_ost_source_caches(): the two dicts after the call, and the exception
_allocate_ost_source_caches(source_cache_dict, source_state_dict, fill_level_dict) ==
    LET r == allocate_scan(source_cache_dict.keys, source_cache_dict, source_state_dict,
                           <<>>, fill_level_dict)
    IN IF r.err # ""
       THEN [err |-> r.err, cache |-> source_cache_dict, state |-> r.state]
       ELSE [err |-> "",
             cache |-> del_each(source_cache_dict, r.del),
             state |-> del_each(r.state, r.del)]

\* os.listdir(): the entries in any order; the pending ones pass the
\* endswith(".input") test of line 263
Pending(dir) == { n \in DOMAIN dir : dir[n] = "input" }

Orderings(S) ==
    { q \in [1 .. Cardinality(S) -> S] : \A i, j \in 1 .. Cardinality(S) : q[i] = q[j] => i = j }

----------------------------------------------------------------------------
(* The pairing pass: the first READY destination in dict order.            *)

\* first_ready without the READY test of line 134: the first destination
first_tracked(keys, target_state_dict) ==
    IF keys = <<>> THEN <<>> ELSE <<Head(keys)>>

RECURSIVE first_ready(_, _)
first_ready(keys, target_state_dict) ==
    IF keys = <<>> THEN <<>>
    ELSE IF Get(target_state_dict, Head(keys)) = READY THEN <<Head(keys)>>
         ELSE first_ready(Tail(keys), target_state_dict)

\* list.pop() that leaves the item in the list
list_peek(l) == [item |-> l[Len(l)], rest |-> l]

\* list.pop(): the last item, and the list without it
list_pop(l) == [item |-> l[Len(l)], rest |-> SubSeq(l, 1, Len(l) - 1)]

----------------------------------------------------------------------------
(* The state after __init__ (lines 61-98).                                 *)

NoPass == [cache |-> EmptyDict, source |-> EmptyDict, target |-> EmptyDict]
NoLoad == [file |-> "", loaded |-> 0, skipped |-> 0]

Init ==
    /\ pc = "new"
    /\ in_startup = TRUE
    /\ run_flag = FALSE
    /\ sigterm = FALSE
    /\ ost_source_cache_dict = EmptyDict
    /\ ost_source_state_dict = EmptyDict
    /\ ost_target_state_dict = EmptyDict
    /\ ost_fill_level_dict = <<>>
    /\ task_queue = <<>>
    /\ lock_task_queue = "free"
    /\ result_queue = <<>>
    /\ lock_result_queue = "free"
    /\ running = {}
    /\ input_dir = [n \in Arriving |-> "absent"]
    /\ files = <<>>
    /\ file_counter = 0
    /\ source_idx = 0
    /\ task = NoTask
    /\ finished = <<>>
    /\ timers = MaxTimers
    /\ pass_begin = NoPass
    /\ pass_tasks = <<>>
    /\ load_log = NoLoad

dicts == << ost_source_cache_dict, ost_source_state_dict, ost_target_state_dict,
            ost_fill_level_dict >>
queues == << task_queue, lock_task_queue, result_queue, lock_result_queue, running >>
intake == << input_dir, files, file_counter, load_log >>
locals == << source_idx, task, finished >>
history == << pass_begin, pass_tasks >>

\* the process has not exited
Alive == pc \notin {"exit0", "exit1"}

\* sys.exit(code) (lines 240, 244): the process and its objects are gone, its
\* locks are released; the queues and the intake directory stay
Gone(code) ==
    /\ pc' = code
    /\ in_startup' = FALSE
    /\ run_flag' = FALSE
    /\ ost_source_cache_dict' = EmptyDict
    /\ ost_source_state_dict' = EmptyDict
    /\ ost_target_state_dict' = EmptyDict
    /\ ost_fill_level_dict' = <<>>
    /\ lock_task_queue' = "free"
    /\ lock_result_queue' = "free"
    /\ files' = <<>>
    /\ file_counter' = 0
    /\ source_idx' = 0
    /\ task' = NoTask
    /\ finished' = <<>>
    /\ timers' = 0
    /\ pass_begin' = NoPass
    /\ pass_tasks' = <<>>
    /\ load_log' = NoLoad

Exit(code) ==
    /\ Gone(code)
    /\ UNCHANGED << task_queue, result_queue, running, input_dir >>

----------------------------------------------------------------------------
(* run(): start-up (lines 104-122).                                        *)

\* lines 104-109: run_flag, the SIGTERM handler
Start ==
    /\ pc = "new"
    /\ run_flag' = TRUE
    /\ pc' = "fill"
    /\ UNCHANGED << in_startup, sigterm, dicts, queues, intake, locals, history, timers >>

\* line 111: _update_ost_fill_level_dict() returns one of the samples
StartFillWith(samples) ==
    /\ pc = "fill"
    /\ \E sample \in samples : ost_fill_level_dict' = sample
    /\ pc' = "targets"
    /\ UNCHANGED << in_startup, run_flag, sigterm, ost_source_cache_dict,
                    ost_source_state_dict, ost_target_state_dict, queues, intake, locals,
                    history, timers >>

StartFill == StartFillWith(FillSamples)

\* line 112: _init_ost_target_state_dict(); an exception ends run() at line 240
InitTargets ==
    /\ pc = "targets"
    /\ LET r == _init_ost_target_state_dict(ost_target_state_dict, ost_fill_level_dict)
       IN IF r.err # ""
          THEN Exit("exit1")
          ELSE /\ ost_target_state_dict' = r.dict
               /\ pc' = "scan"
               /\ UNCHANGED << in_startup, run_flag, ost_source_cache_dict,
                               ost_source_state_dict, ost_fill_level_dict, queues, intake,
                               locals, history, timers >>
    /\ UNCHANGED sigterm

----------------------------------------------------------------------------
(* _process_input_files (line 113 and line 202).                           *)

\* lines 257-259: file_counter = 0, files = os.listdir(input_dir)
ScanBegin ==
    /\ pc = "scan"
    /\ file_counter' = 0
    /\ \E q \in Orderings(Pending(input_dir)) : files' = q
    /\ pc' = "load"
    /\ UNCHANGED << in_startup, run_flag, sigterm, dicts, queues, input_dir, load_log,
                    locals, history, timers >>

\* LoadFile without the os.renames of line 269: the file stays pending
LoadFile_NotRenamed ==
    /\ pc = "load"
    /\ files # <<>>
    /\ LET r == _load_input_file(FileLines(Head(files)), ost_source_cache_dict)
       IN /\ ost_source_cache_dict' = r.cache
          /\ load_log' = [file |-> Head(files), loaded |-> r.loaded, skipped |-> r.skipped]
    /\ file_counter' = file_counter + 1
    /\ files' = Tail(files)
    /\ UNCHANGED << pc, in_startup, run_flag, sigterm, ost_source_state_dict,
                    ost_target_state_dict, ost_fill_level_dict, queues, input_dir, locals,
                    history, timers >>

\* lines 261-271: one pending file is loaded and renamed to .done
LoadFile ==
    /\ pc = "load"
    /\ files # <<>>
    /\ LET r == _load_input_file(FileLines(Head(files)), ost_source_cache_dict)
       IN /\ ost_source_cache_dict' = r.cache
          /\ load_log' = [file |-> Head(files), loaded |-> r.loaded, skipped |-> r.skipped]
    /\ input_dir' = [input_dir EXCEPT ![Head(files)] = "done"]
    /\ file_counter' = file_counter + 1
    /\ files' = Tail(files)
    /\ UNCHANGED << pc, in_startup, run_flag, sigterm, ost_source_state_dict,
                    ost_target_state_dict, ost_fill_level_dict, queues, locals, history,
                    timers >>

\* lines 273-276: if file_counter: _allocate_ost_source_caches(); then the
\* caller goes on to the while loop (lines 115-124, or lines 204-222)
Allocate ==
    /\ pc = "load"
    /\ files = <<>>
    /\ LET r == IF file_counter > 0
                THEN _allocate_ost_source_caches(ost_source_cache_dict,
                                                 ost_source_state_dict, ost_fill_level_dict)
                ELSE [err |-> "", cache |-> ost_source_cache_dict,
                      state |-> ost_source_state_dict]
       IN IF r.err # ""
          THEN Exit("exit1")
          ELSE /\ ost_source_cache_dict' = r.cache
               /\ ost_source_state_dict' = r.state
               /\ pc' = "loop"
               /\ in_startup' = FALSE
               /\ UNCHANGED << run_flag, ost_target_state_dict, ost_fill_level_dict, queues,
                               intake, locals, history, timers >>
    /\ UNCHANGED sigterm

----------------------------------------------------------------------------
(* run(): the while loop (lines 124-225).                                  *)

\* line 124: while self.run_flag; lines 242-244 when it is false
LoopTop ==
    /\ pc = "loop"
    /\ IF run_flag
       THEN /\ pc' = "pair"
            /\ source_idx' = 1
            /\ pass_begin' = [cache |-> ost_source_cache_dict,
                              source |-> ost_source_state_dict,
                              target |-> ost_target_state_dict]
            /\ pass_tasks' = <<>>
            /\ UNCHANGED << in_startup, run_flag, dicts, queues, intake, task, finished,
                            timers >>
       ELSE Exit("exit0")
    /\ UNCHANGED sigterm

\* lines 128-145: the next source of the for loop; a READY source with items
\* and a READY destination gives a task
PairSource ==
    /\ pc = "pair"
    /\ source_idx <= Len(ost_source_cache_dict.keys)
    /\ LET source_ost == ost_source_cache_dict.keys[source_idx]
           ost_cache == Get(ost_source_cache_dict, source_ost)
           found == first_ready(ost_target_state_dict.keys, ost_target_state_dict)
       IN IF ~Has(ost_source_state_dict, source_ost)
          THEN Exit("exit1")     \* KeyError at line 130
          ELSE /\ IF /\ Get(ost_source_state_dict, source_ost) = READY
                     /\ Len(ost_cache) > 0
                     /\ found # <<>>
                  THEN /\ ost_source_cache_dict' =
                             Put(ost_source_cache_dict, source_ost, list_pop(ost_cache).rest)
                       /\ task' = OstMigrateTask(source_ost, found[1],
                                                 list_pop(ost_cache).item.filename)
                       /\ pc' = "lock"
                       /\ UNCHANGED source_idx
                  ELSE /\ source_idx' = source_idx + 1
                       /\ UNCHANGED << pc, ost_source_cache_dict, task >>
               /\ UNCHANGED << in_startup, run_flag, ost_source_state_dict,
                               ost_target_state_dict, ost_fill_level_dict, queues, intake,
                               finished, history, timers >>
    /\ UNCHANGED sigterm

\* line 149: with CriticalSection(self.lock_task_queue)
PairLock ==
    /\ pc = "lock"
    /\ lock_task_queue = "free"
    /\ lock_task_queue' = "generator"
    /\ pc' = "push"
    /\ UNCHANGED << in_startup, run_flag, sigterm, dicts, task_queue, result_queue,
                    lock_result_queue, running, intake, locals, history, timers >>

\* line 150: self.task_queue.push(task), and the end of the with block
PairPush ==
    /\ pc = "push"
    /\ task_queue' = Append(task_queue, task)
    /\ lock_task_queue' = "free"
    /\ pass_tasks' = Append(pass_tasks, task)
    /\ pc' = "block"
    /\ UNCHANGED << in_startup, run_flag, sigterm, dicts, result_queue, lock_result_queue,
                    running, intake, locals, pass_begin, timers >>

\* PairBlock without line 152: the source is left READY
PairBlock_SourceNotBlocked ==
    /\ pc = "block"
    /\ ost_target_state_dict' = Put(ost_target_state_dict, task.target, BLOCKED)
    /\ task' = NoTask
    /\ source_idx' = source_idx + 1
    /\ pc' = "pair"
    /\ UNCHANGED << in_startup, run_flag, sigterm, ost_source_cache_dict,
                    ost_source_state_dict, ost_fill_level_dict, queues, intake, finished,
                    history, timers >>

\* PairBlock without line 153: the destination is left READY
PairBlock_TargetNotBlocked ==
    /\ pc = "block"
    /\ ost_source_state_dict' = Put(ost_source_state_dict, task.source, BLOCKED)
    /\ task' = NoTask
    /\ source_idx' = source_idx + 1
    /\ pc' = "pair"
    /\ UNCHANGED << in_startup, run_flag, sigterm, ost_source_cache_dict,
                    ost_target_state_dict, ost_fill_level_dict, queues, intake, finished,
                    history, timers >>

\* lines 152-155: both states become BLOCKED, break
PairBlock ==
    /\ pc = "block"
    /\ ost_source_state_dict' = Put(ost_source_state_dict, task.source, BLOCKED)
    /\ ost_target_state_dict' = Put(ost_target_state_dict, task.target, BLOCKED)
    /\ task' = NoTask
    /\ source_idx' = source_idx + 1
    /\ pc' = "pair"
    /\ UNCHANGED << in_startup, run_flag, sigterm, ost_source_cache_dict,
                    ost_fill_level_dict, queues, intake, finished, history, timers >>

\* the for loop of line 128 is exhausted
PairEnd ==
    /\ pc = "pair"
    /\ source_idx > Len(ost_source_cache_dict.keys)
    /\ pc' = "drain"
    /\ pass_begin' = NoPass
    /\ pass_tasks' = <<>>
    /\ UNCHANGED << in_startup, run_flag, sigterm, dicts, queues, intake, locals, timers >>

\* line 157: while not self.result_queue.is_empty()
DrainCheck ==
    /\ pc = "drain"
    /\ pc' = IF result_queue = <<>> THEN "timers" ELSE "rc_pop"
    /\ UNCHANGED << in_startup, run_flag, sigterm, dicts, queues, intake, locals, history,
                    timers >>

\* lines 159-165: under lock_result_queue, pop a tid and split it at ":"
RcPop ==
    /\ pc = "rc_pop"
    /\ lock_result_queue = "free"
    /\ LET tokens == split_on(Head(result_queue), ":")
       IN IF Len(tokens) # 2
          THEN /\ Gone("exit1")     \* ValueError at line 165
               /\ result_queue' = Tail(result_queue)
               /\ UNCHANGED << task_queue, running, input_dir >>
          ELSE /\ result_queue' = Tail(result_queue)
               /\ finished' = tokens
               /\ lock_result_queue' = "generator"
               /\ pc' = "rc_source"
               /\ UNCHANGED << in_startup, run_flag, dicts, task_queue, lock_task_queue,
                               running, intake, source_idx, task, history, timers >>
    /\ UNCHANGED sigterm

\* line 167: _update_ost_state_dict(source_ost, self.ost_source_state_dict)
RcSource ==
    /\ pc = "rc_source"
    /\ LET r == _update_ost_state_dict(finished[1], ost_source_state_dict, "None",
                                       ost_fill_level_dict)
       IN IF r.err # ""
          THEN Exit("exit1")
          ELSE /\ ost_source_state_dict' = r.dict
               /\ pc' = "rc_target"
               /\ UNCHANGED << in_startup, run_flag, ost_source_cache_dict,
                               ost_target_state_dict, ost_fill_level_dict, queues, intake,
                               locals, history, timers >>
    /\ UNCHANGED sigterm

\* line 168: _update_ost_state_dict(target_ost, self.ost_target_state_dict),
\* and the end of the with block
RcTarget ==
    /\ pc = "rc_target"
    /\ LET r == _update_ost_state_dict(finished[2], ost_target_state_dict, "None",
                                       ost_fill_level_dict)
       IN IF r.err # ""
          THEN Exit("exit1")
          ELSE /\ ost_target_state_dict' = r.dict
               /\ pc' = "drain"
               /\ lock_result_queue' = "free"
               /\ finished' = <<>>
               /\ UNCHANGED << in_startup, run_flag, ost_source_cache_dict,
                               ost_source_state_dict, ost_fill_level_dict, task_queue,
                               lock_task_queue, result_queue, running, intake, source_idx,
                               task, history, timers >>
    /\ UNCHANGED sigterm

\* lines 172-180: the fill-level timer fired: _update_ost_fill_level_dict()
\* returns one of the samples
RefreshWith(samples, timers_left) ==
    /\ pc = "timers"
    /\ timers > 0
    /\ \E sample \in samples : ost_fill_level_dict' = sample
    /\ timers' = timers_left
    /\ pc' = "refresh_source"
    /\ UNCHANGED << in_startup, run_flag, sigterm, ost_source_cache_dict,
                    ost_source_state_dict, ost_target_state_dict, queues, intake, locals,
                    history >>

Refresh == RefreshWith(FillSamples, timers - 1)

\* lines 190-191: every tracked source state is evaluated against the new sample
RefreshSources ==
    /\ pc = "refresh_source"
    /\ LET r == update_each(ost_source_state_dict.keys, ost_source_state_dict, "gt",
                            ost_fill_level_dict)
       IN IF r.err # ""
          THEN Exit("exit1")
          ELSE /\ ost_source_state_dict' = r.dict
               /\ pc' = "refresh_target"
               /\ UNCHANGED << in_startup, run_flag, ost_source_cache_dict,
                               ost_target_state_dict, ost_fill_level_dict, queues, intake,
                               locals, history, timers >>
    /\ UNCHANGED sigterm

\* lines 193-194: then every tracked destination state
RefreshTargets ==
    /\ pc = "refresh_target"
    /\ LET r == update_each(ost_target_state_dict.keys, ost_target_state_dict, "lt",
                            ost_fill_level_dict)
       IN IF r.err # ""
          THEN Exit("exit1")
          ELSE /\ ost_target_state_dict' = r.dict
               /\ pc' = "reload"
               /\ UNCHANGED << in_startup, run_flag, ost_source_cache_dict,
                               ost_source_state_dict, ost_fill_level_dict, queues, intake,
                               locals, history, timers >>
    /\ UNCHANGED sigterm

\* line 172: the fill-level timer is not due
SkipRefresh ==
    /\ pc = "timers"
    /\ pc' = "reload"
    /\ UNCHANGED << in_startup, run_flag, sigterm, dicts, queues, intake, locals, history,
                    timers >>

\* lines 196-202: the re-scan timer fired
RescanWith(timers_left) ==
    /\ pc = "reload"
    /\ timers > 0
    /\ timers' = timers_left
    /\ pc' = "scan"
    /\ UNCHANGED << in_startup, run_flag, sigterm, dicts, queues, intake, locals, history >>

Rescan == RescanWith(timers - 1)

\* line 196: the re-scan timer is not due; lines 204-222
SkipRescan ==
    /\ pc = "reload"
    /\ pc' = "loop"
    /\ UNCHANGED << in_startup, run_flag, sigterm, dicts, queues, intake, locals, history,
                    timers >>

----------------------------------------------------------------------------
(* SIGTERM: _signal_handler_terminate (lines 246-253).                     *)

\* The handler clears run_flag and raises InterruptedError where the process
\* is.  Inside the try of line 126 it is caught at line 224 (the with blocks
\* release their locks) and control returns to line 124; outside of it, in
\* the start-up and at the while test, it reaches line 227 and line 240.
\* One SIGTERM is delivered: it ends the process.
_signal_handler_terminate ==
    /\ ~sigterm
    /\ pc \notin {"new", "exit0", "exit1"}
    /\ sigterm' = TRUE
    /\ IF in_startup \/ pc = "loop"
       THEN Exit("exit1")
       ELSE /\ run_flag' = FALSE
            /\ pc' = "loop"
            /\ lock_task_queue' = "free"
            /\ lock_result_queue' = "free"
            /\ UNCHANGED << in_startup, dicts, task_queue, result_queue, running, intake,
                            locals, history, timers >>

----------------------------------------------------------------------------
(* The environment: the intake directory and the executors.                *)

\* a batch file of the catalog appears in input_dir
FileArrives ==
    /\ Alive
    /\ \E n \in DOMAIN input_dir :
          /\ input_dir[n] = "absent"
          /\ input_dir' = [input_dir EXCEPT ![n] = "input"]
    /\ UNCHANGED << pc, in_startup, run_flag, sigterm, dicts, queues, files, file_counter,
                    load_log, locals, history, timers >>

\* an executor takes the oldest task from the task queue, under its lock
ExecTake ==
    /\ Alive
    /\ lock_task_queue = "free"
    /\ task_queue # <<>>
    /\ running' = running \cup {Head(task_queue).tid}
    /\ task_queue' = Tail(task_queue)
    /\ UNCHANGED << pc, in_startup, run_flag, sigterm, dicts, lock_task_queue, result_queue,
                    lock_result_queue, intake, locals, history, timers >>

\* an executor finishes a task and puts its tid on the result queue, under its lock
ExecDone ==
    /\ Alive
    /\ lock_result_queue = "free"
    /\ \E tid \in running :
          /\ result_queue' = Append(result_queue, tid)
          /\ running' = running \ {tid}
    /\ UNCHANGED << pc, in_startup, run_flag, sigterm, dicts, task_queue, lock_task_queue,
                    lock_result_queue, intake, locals, history, timers >>

----------------------------------------------------------------------------

Next ==
    \/ Start
    \/ StartFill
    \/ InitTargets
    \/ ScanBegin
    \/ LoadFile
    \/ Allocate
    \/ LoopTop
    \/ PairSource
    \/ PairLock
    \/ PairPush
    \/ PairBlock
    \/ PairEnd
    \/ DrainCheck
    \/ RcPop
    \/ RcSource
    \/ RcTarget
    \/ Refresh
    \/ RefreshSources
    \/ RefreshTargets
    \/ SkipRefresh
    \/ Rescan
    \/ SkipRescan
    \/ _signal_handler_terminate
    \/ FileArrives
    \/ ExecTake
    \/ ExecDone

Spec == Init /\ [][Next]_vars

----------------------------------------------------------------------------
(* The fill-level evaluation on its own (lines 363-399): one OST per role,  *)
(* every starting state, every sample.                                      *)

\* the state dicts an evaluation of ost can start from: no entry, or any state
StartDicts(ost) == {EmptyDict} \cup { Put(EmptyDict, ost, s) : s \in OSTState }

InitFill ==
    /\ pc = "evaluate"
    /\ in_startup = FALSE
    /\ run_flag = TRUE
    /\ sigterm = FALSE
    /\ ost_source_cache_dict = EmptyDict
    /\ ost_source_state_dict \in StartDicts(OstA)
    /\ ost_target_state_dict \in StartDicts(OstB)
    /\ ost_fill_level_dict \in FillSamples
    /\ task_queue = <<>>
    /\ lock_task_queue = "free"
    /\ result_queue = <<>>
    /\ lock_result_queue = "free"
    /\ running = {}
    /\ input_dir = [n \in Arriving |-> "absent"]
    /\ files = <<>>
    /\ file_counter = 0
    /\ source_idx = 0
    /\ task = NoTask
    /\ finished = <<>>
    /\ timers = 0
    /\ pass_begin = [cache |-> EmptyDict, source |-> ost_source_state_dict,
                     target |-> ost_target_state_dict]
    /\ pass_tasks = <<>>
    /\ load_log = NoLoad

\* line 365: _update_ost_source_state_dict(OstA), a first time
EvalSource ==
    /\ pc = "evaluate"
    /\ ost_source_state_dict' =
          _update_ost_source_state_dict(OstA, ost_source_state_dict, ost_fill_level_dict).dict
    /\ pc' = "again_source"
    /\ UNCHANGED << in_startup, run_flag, sigterm, ost_source_cache_dict,
                    ost_target_state_dict, ost_fill_level_dict, queues, intake, locals,
                    history, timers >>

\* line 367: _update_ost_target_state_dict(OstB), a first time
EvalTarget ==
    /\ pc = "evaluate"
    /\ ost_target_state_dict' =
          _update_ost_target_state_dict(OstB, ost_target_state_dict, ost_fill_level_dict).dict
    /\ pc' = "again_target"
    /\ UNCHANGED << in_startup, run_flag, sigterm, ost_source_cache_dict,
                    ost_source_state_dict, ost_fill_level_dict, queues, intake, locals,
                    history, timers >>

\* lines 346-361: another sample, in which the evaluated OST is on the same
\* side of the threshold
Resample ==
    /\ pc \in {"again_source", "again_target"}
    /\ \E sample \in FillSamples :
          /\ sample # ost_fill_level_dict
          /\ IF pc = "again_source"
             THEN operator_func_apply("gt", sample[OstA], ost_fill_threshold) =
                     operator_func_apply("gt", ost_fill_level_dict[OstA], ost_fill_threshold)
             ELSE operator_func_apply("lt", sample[OstB], ost_fill_threshold) =
                     operator_func_apply("lt", ost_fill_level_dict[OstB], ost_fill_threshold)
          /\ ost_fill_level_dict' = sample
    /\ UNCHANGED << pc, in_startup, run_flag, sigterm, ost_source_cache_dict,
                    ost_source_state_dict, ost_target_state_dict, queues, intake, locals,
                    history, timers >>

\* line 365, a second time
EvalSourceAgain ==
    /\ pc = "again_source"
    /\ ost_source_state_dict' =
          _update_ost_source_state_dict(OstA, ost_source_state_dict, ost_fill_level_dict).dict
    /\ pc' = "evaluated"
    /\ UNCHANGED << in_startup, run_flag, sigterm, ost_source_cache_dict,
                    ost_target_state_dict, ost_fill_level_dict, queues, intake, locals,
                    history, timers >>

\* line 367, a second time
EvalTargetAgain ==
    /\ pc = "again_target"
    /\ ost_target_state_dict' =
          _update_ost_target_state_dict(OstB, ost_target_state_dict, ost_fill_level_dict).dict
    /\ pc' = "evaluated"
    /\ UNCHANGED << in_startup, run_flag, sigterm, ost_source_cache_dict,
                    ost_source_state_dict, ost_fill_level_dict, queues, intake, locals,
                    history, timers >>

NextFill ==
    \/ EvalSource
    \/ EvalTarget
    \/ Resample
    \/ EvalSourceAgain
    \/ EvalTargetAgain

SpecFill == InitFill /\ [][NextFill]_vars

----------------------------------------------------------------------------
(* A file system that does not report every OST (lines 360-361, 373-374).   *)

\* what retrieve_ost_fill_level() returns when an OST is not reported
PartialSamples ==
    { [ost \in OSTs \ {o} |-> sample[ost]] : o \in {OstA, OstC}, sample \in FillSamples }

StartFillUnknown == StartFillWith(PartialSamples)

RefreshUnknown == RefreshWith(PartialSamples, timers - 1)

NextUnknown ==
    \/ Next
    \/ StartFillUnknown
    \/ RefreshUnknown

SpecUnknown == Init /\ [][NextUnknown]_vars

----------------------------------------------------------------------------
(* Executors that put anything on the result queue (lines 161-168).        *)

\* correlation ids that no task carries (A is no destination, D is no source,
\* no task migrates from B to B) or that are not "source:target"
RogueTids ==
    { OstA, OstA \o <<":">> \o OstC \o <<":">> \o OstD,
      OstA \o <<":">> \o OstA, OstB \o <<":">> \o OstB, OstD \o <<":">> \o OstC }

\* some process pushes a correlation id of its own on the result queue, under
\* its lock.  The scheduler looks at the queue at line 157 only, so the push
\* is taken to happen right before that test, on the empty queue.
RogueDone ==
    /\ pc = "drain"
    /\ lock_result_queue = "free"
    /\ result_queue = <<>>
    /\ \E tid \in RogueTids : result_queue' = Append(result_queue, tid)
    /\ UNCHANGED << pc, in_startup, run_flag, sigterm, dicts, task_queue, lock_task_queue,
                    lock_result_queue, running, intake, locals, history, timers >>

NextRogue ==
    \/ Next
    \/ RogueDone

SpecRogue == Init /\ [][NextRogue]_vars

----------------------------------------------------------------------------
(* The scheduler left to run: every batch is there at the start, the       *)
(* timers fire for ever, no SIGTERM.                                       *)

\* samples in which the sources of the catalog are above the threshold and
\* a destination is below it
LiveSamples ==
    { sample \in FillSamples :
         /\ sample[OstA] > ost_fill_threshold
         /\ sample[OstB] > ost_fill_threshold
         /\ \E i \in DOMAIN ost_target_list : sample[ost_target_list[i]] < ost_fill_threshold }

InitLive ==
    /\ pc = "new"
    /\ in_startup = TRUE
    /\ run_flag = FALSE
    /\ sigterm = FALSE
    /\ ost_source_cache_dict = EmptyDict
    /\ ost_source_state_dict = EmptyDict
    /\ ost_target_state_dict = EmptyDict
    /\ ost_fill_level_dict = <<>>
    /\ task_queue = <<>>
    /\ lock_task_queue = "free"
    /\ result_queue = <<>>
    /\ lock_result_queue = "free"
    /\ running = {}
    /\ input_dir = [n \in Arriving |-> "input"]
    /\ files = <<>>
    /\ file_counter = 0
    /\ source_idx = 0
    /\ task = NoTask
    /\ finished = <<>>
    /\ timers = MaxTimers
    /\ pass_begin = NoPass
    /\ pass_tasks = <<>>
    /\ load_log = NoLoad

StartFillLive == StartFillWith(LiveSamples)

\* lines 172-194, every 900 seconds (line 174)
RefreshLive == RefreshWith(LiveSamples, timers)

\* lines 196-202, every 900 seconds (line 198)
RescanLive == RescanWith(timers)

\* the steps of run()
SchedulerLive ==
    \/ Start
    \/ StartFillLive
    \/ InitTargets
    \/ ScanBegin
    \/ LoadFile
    \/ Allocate
    \/ LoopTop
    \/ PairSource
    \/ PairLock
    \/ PairPush
    \/ PairBlock
    \/ PairEnd
    \/ DrainCheck
    \/ RcPop
    \/ RcSource
    \/ RcTarget
    \/ RefreshLive
    \/ RefreshSources
    \/ RefreshTargets
    \/ SkipRefresh
    \/ RescanLive
    \/ SkipRescan

NextLive ==
    \/ SchedulerLive
    \/ ExecTake
    \/ ExecDone

\* the loop keeps running, its fill-level timer comes due again and again
\* (time.time() grows, lines 170-174), and the executors take and complete
\* every task
SpecLive ==
    /\ InitLive
    /\ [][NextLive]_vars
    /\ WF_vars(SchedulerLive)
    /\ SF_vars(RefreshLive)
    /\ WF_vars(ExecTake)
    /\ WF_vars(ExecDone)

----------------------------------------------------------------------------
(* Properties.                                                             *)

tid_source(tid) == split_on(tid, ":")[1]
tid_target(tid) == split_on(tid, ":")[2]

\* the tasks that were pushed (line 150) and whose tid has not been
\* reconciled yet (lines 161-168), each with the place where it is
InFlight ==
    { <<"task_queue", i, task_queue[i].tid>> : i \in DOMAIN task_queue }
    \cup { <<"executor", 0, tid>> : tid \in running }
    \cup { <<"result_queue", i, result_queue[i]>> : i \in DOMAIN result_queue }
    \cup (IF finished # <<>>
          THEN { <<"reconciler", 0, finished[1] \o <<":">> \o finished[2]>> }
          ELSE {})

InFlightState == {BLOCKED, PENDING_LOCK}

\* C1: single assignment. Among the tasks that were emitted and are not yet
\* reconciled, no two name the same source and no two name the same destination.
C1_SingleAssignment ==
    \A a, b \in InFlight :
        a # b => /\ tid_source(a[3]) # tid_source(b[3])
                 /\ tid_target(a[3]) # tid_target(b[3])

\* C1 witness: two tasks are in flight at once, after a maintenance timer fired
C1_TwoInFlight ==
    /\ timers < MaxTimers
    /\ \E a, b \in InFlight : a # b

\* C2: whenever the task-queue lock is free, every task in the task queue has
\* its source BLOCKED in the source role and its destination BLOCKED in the
\* destination role (or PENDING_LOCK, which a refresh makes of BLOCKED).
C2_QueuedTaskIsBlocked ==
    lock_task_queue = "free" =>
        \A i \in DOMAIN task_queue :
            /\ Has(ost_source_state_dict, task_queue[i].source)
            /\ Get(ost_source_state_dict, task_queue[i].source) \in InFlightState
            /\ Has(ost_target_state_dict, task_queue[i].target)
            /\ Get(ost_target_state_dict, task_queue[i].target) \in InFlightState

\* what a completion makes of an in-flight state
Advance(state) == IF state = BLOCKED THEN READY ELSE LOCKED

\* C3: reconciling a completion signal s:d advances the source-role state of
\* s (line 167) and then the destination-role state of d (line 168) from
\* BLOCKED to READY or from PENDING_LOCK to LOCKED, and changes no other state
\* entry, no cache entry and no fill level.
C3_ReconcileInverse ==
    [][ /\ (pc = "rc_source" /\ pc' # "loop") =>
              /\ pc' = "rc_target"
              /\ Has(ost_source_state_dict, finished[1])
              /\ Get(ost_source_state_dict, finished[1]) \in InFlightState
              /\ ost_source_state_dict' =
                    [ost_source_state_dict EXCEPT !.val[finished[1]] = Advance(@)]
              /\ UNCHANGED << ost_source_cache_dict, ost_target_state_dict,
                              ost_fill_level_dict >>
        /\ (pc = "rc_target" /\ pc' # "loop") =>
              /\ pc' = "drain"
              /\ Has(ost_target_state_dict, finished[2])
              /\ Get(ost_target_state_dict, finished[2]) \in InFlightState
              /\ ost_target_state_dict' =
                    [ost_target_state_dict EXCEPT !.val[finished[2]] = Advance(@)]
              /\ UNCHANGED << ost_source_cache_dict, ost_source_state_dict,
                              ost_fill_level_dict >>
      ]_<< pc, dicts >>

\* C3 witness: a reconciliation has advanced a PENDING_LOCK source to LOCKED
\* and is about to advance a destination that is still BLOCKED
C3_SourceReconciled ==
    /\ pc = "rc_target"
    /\ Get(ost_source_state_dict, finished[1]) = LOCKED
    /\ Get(ost_target_state_dict, finished[2]) = BLOCKED

\* f > T and f < T
SourceEligible(fill_level) == fill_level > ost_fill_threshold
TargetEligible(fill_level) == fill_level < ost_fill_threshold

\* C4: in-flight takes precedence over the fill level. No step other than the
\* reconciliation of its completion signal takes a state out of BLOCKED /
\* PENDING_LOCK, and a refresh turns BLOCKED into PENDING_LOCK exactly when the
\* new sample is ineligible and leaves PENDING_LOCK as it is.  (The states
\* end with the process, so the steps are those the process survives.)
C4_InFlightPrecedence ==
    [][ /\ Alive' => \A ost \in Keys(ost_source_state_dict) :
              ( /\ Get(ost_source_state_dict, ost) \in InFlightState
                /\ ~(pc = "rc_source" /\ finished[1] = ost) )
              => /\ Has(ost_source_state_dict', ost)
                 /\ Get(ost_source_state_dict', ost) \in InFlightState
        /\ Alive' => \A ost \in Keys(ost_target_state_dict) :
              ( /\ Get(ost_target_state_dict, ost) \in InFlightState
                /\ ~(pc = "rc_target" /\ finished[2] = ost) )
              => /\ Has(ost_target_state_dict', ost)
                 /\ Get(ost_target_state_dict', ost) \in InFlightState
        /\ (pc = "refresh_source" /\ pc' = "refresh_target") =>
                 \A ost \in Keys(ost_source_state_dict) :
                    /\ Get(ost_source_state_dict, ost) = BLOCKED =>
                          Get(ost_source_state_dict', ost) =
                             IF SourceEligible(ost_fill_level_dict'[ost])
                             THEN BLOCKED ELSE PENDING_LOCK
                    /\ Get(ost_source_state_dict, ost) = PENDING_LOCK =>
                          Get(ost_source_state_dict', ost) = PENDING_LOCK
        /\ (pc = "refresh_target" /\ pc' = "reload") =>
                 \A ost \in Keys(ost_target_state_dict) :
                    /\ Get(ost_target_state_dict, ost) = BLOCKED =>
                          Get(ost_target_state_dict', ost) =
                             IF TargetEligible(ost_fill_level_dict'[ost])
                             THEN BLOCKED ELSE PENDING_LOCK
                    /\ Get(ost_target_state_dict, ost) = PENDING_LOCK =>
                          Get(ost_target_state_dict', ost) = PENDING_LOCK
      ]_vars

\* C4 witness: after two refreshes a destination is PENDING_LOCK although the
\* current sample is eligible again, and its task is still in flight
C4_PendingSurvivesRefresh ==
    /\ pc = "reload"
    /\ timers = MaxTimers - 2
    /\ \E ost \in Keys(ost_target_state_dict) :
          /\ Get(ost_target_state_dict, ost) = PENDING_LOCK
          /\ TargetEligible(ost_fill_level_dict[ost])
          /\ \E a \in InFlight : tid_target(a[3]) = ost

\* C5: the fill-level transition is idempotent. For either role, from every
\* starting state (no entry, READY, LOCKED, BLOCKED, PENDING_LOCK) and every
\* sample, a second evaluation with a sample of the same classification
\* leaves the state that the first evaluation produced.
C5_FillIdempotent ==
    [][ /\ (pc = "again_source" /\ pc' = "evaluated") =>
              /\ Has(ost_source_state_dict, OstA)
              /\ ost_source_state_dict' = ost_source_state_dict
        /\ (pc = "again_target" /\ pc' = "evaluated") =>
              /\ Has(ost_target_state_dict, OstB)
              /\ ost_target_state_dict' = ost_target_state_dict
      ]_vars

\* C5 witness: a source that started BLOCKED was evaluated twice with an
\* ineligible sample and is PENDING_LOCK
C5_BlockedEvaluatedTwice ==
    /\ pc = "evaluated"
    /\ Has(pass_begin.source, OstA)
    /\ Get(pass_begin.source, OstA) = BLOCKED
    /\ ~SourceEligible(ost_fill_level_dict[OstA])
    /\ Get(ost_source_state_dict, OstA) = PENDING_LOCK

IsPrefix(s, t) == Len(s) <= Len(t) /\ SubSeq(t, 1, Len(s)) = s

\* C6: no item is lost from the cache. In every step the process survives,
\* the cache entry of a source either loses exactly its last item to the task
\* that the pairing step builds from it, or keeps all its items in place
\* (ingestion may append); an entry disappears only when it holds no item.
C6_NoItemLost ==
    [][ Alive' =>
          \A ost \in Keys(ost_source_cache_dict) :
             LET items == Get(ost_source_cache_dict, ost)
             IN IF pc = "pair" /\ pc' = "lock" /\ task'.source = ost
                THEN /\ Has(ost_source_cache_dict', ost)
                     /\ items # <<>>
                     /\ Get(ost_source_cache_dict', ost) = SubSeq(items, 1, Len(items) - 1)
                     /\ task'.filename = items[Len(items)].filename
                ELSE IF Has(ost_source_cache_dict', ost)
                     THEN IsPrefix(items, Get(ost_source_cache_dict', ost))
                     ELSE items = <<>>
      ]_vars

\* C6 witness: after a pairing pass, a reconciliation and a re-scan the
\* drained source A was pruned while B, ingested with it, still holds an item
C6_PrunedBesideHeldItem ==
    /\ pc = "loop"
    /\ ~in_startup
    /\ timers < MaxTimers
    /\ input_dir["b1"] = "done"
    /\ ~Has(ost_source_cache_dict, OstA)
    /\ Has(ost_source_cache_dict, OstB)
    /\ Get(ost_source_cache_dict, OstB) # <<>>

\* C7: a periodic re-scan (the end of _process_input_files in the loop)
\* removes the cache entry and the source-role state entry of every source
\* whose cache is empty and whose state is READY, whether or not the re-scan
\* found a batch.
C7_DrainedIsPruned ==
    [][ ( /\ pc = "load" /\ files = <<>> /\ ~in_startup
          /\ pc' = "loop" /\ sigterm' = sigterm ) =>
          \A ost \in Keys(ost_source_cache_dict) :
             ( /\ Get(ost_source_cache_dict, ost) = <<>>
               /\ Has(ost_source_state_dict, ost)
               /\ Get(ost_source_state_dict, ost) = READY )
             => /\ ~Has(ost_source_cache_dict', ost)
                /\ ~Has(ost_source_state_dict', ost)
      ]_vars

\* the sources and destinations a pass can pair: READY when the pass begins
PassSources ==
    LET ready(ost) == /\ Has(pass_begin.source, ost)
                      /\ Get(pass_begin.source, ost) = READY
                      /\ Get(pass_begin.cache, ost) # <<>>
    IN SelectSeq(pass_begin.cache.keys, ready)

PassTargets ==
    LET ready(ost) == Get(pass_begin.target, ost) = READY
    IN SelectSeq(pass_begin.target.keys, ready)

PassCount == IF Len(PassSources) < Len(PassTargets) THEN Len(PassSources) ELSE Len(PassTargets)

\* C8: a pairing pass is a greedy first-fit. When the for loop of line 128 is
\* exhausted, the pass has emitted min(#READY non-empty sources, #READY
\* destinations) tasks; the i-th pairs the i-th such source, in cache order,
\* with the i-th READY destination, in destination order, and carries the
\* last item of that source; exactly one item was popped from each paired
\* source, both sides of each pair are BLOCKED, and nothing else changed.
C8_GreedyFirstFit ==
    (pc = "pair" /\ source_idx > Len(ost_source_cache_dict.keys)) =>
        /\ Len(pass_tasks) = PassCount
        /\ \A i \in 1 .. PassCount :
              LET items == Get(pass_begin.cache, PassSources[i])
              IN /\ pass_tasks[i] = OstMigrateTask(PassSources[i], PassTargets[i],
                                                   items[Len(items)].filename)
                 /\ Get(ost_source_cache_dict, PassSources[i]) =
                       SubSeq(items, 1, Len(items) - 1)
                 /\ Get(ost_source_state_dict, PassSources[i]) = BLOCKED
                 /\ Get(ost_target_state_dict, PassTargets[i]) = BLOCKED
        /\ ost_source_cache_dict.keys = pass_begin.cache.keys
        /\ \A ost \in Keys(pass_begin.cache) :
              (\A i \in 1 .. PassCount : PassSources[i] # ost) =>
                 Get(ost_source_cache_dict, ost) = Get(pass_begin.cache, ost)
        /\ ost_source_state_dict.keys = pass_begin.source.keys
        /\ \A ost \in Keys(pass_begin.source) :
              (\A i \in 1 .. PassCount : PassSources[i] # ost) =>
                 Get(ost_source_state_dict, ost) = Get(pass_begin.source, ost)
        /\ ost_target_state_dict.keys = pass_begin.target.keys
        /\ \A ost \in Keys(pass_begin.target) :
              (\A i \in 1 .. PassCount : PassTargets[i] # ost) =>
                 Get(ost_target_state_dict, ost) = Get(pass_begin.target, ost)

\* C8 witness: a pass ends with two tasks emitted, the second to a destination
\* that is not the first of the destination mapping
C8_PassOfTwo ==
    /\ pc = "pair"
    /\ source_idx > Len(ost_source_cache_dict.keys)
    /\ Len(pass_tasks) = 2
    /\ pass_tasks[2].target # ost_target_state_dict.keys[1]

\* a line as the intake format reads it: the positions where a token begins,
\* and the token that begins at a position
TokenStarts(line) ==
    { i \in DOMAIN line :
         line[i] \notin Whitespace /\ (i = 1 \/ line[i - 1] \in Whitespace) }

TokenAt(line, i) ==
    LET ends == { j \in i .. Len(line) : \A k \in i .. j : line[k] \notin Whitespace }
    IN SubSeq(line, i, CHOOSE j \in ends : \A k \in ends : k <= j)

HasSeparator(line) ==
    \E i \in DOMAIN line : SubSeq(line, i, i + Len(field_separator) - 1) = field_separator

WellFormed(line) == ~HasSeparator(line) /\ Cardinality(TokenStarts(line)) = 2

ItemOf(line) ==
    LET a == CHOOSE i \in TokenStarts(line) : \A j \in TokenStarts(line) : i <= j
        b == CHOOSE i \in TokenStarts(line) : \A j \in TokenStarts(line) : j <= i
    IN LustreOstMigrateItem(TokenAt(line, a), TokenAt(line, b))

\* the items that the well-formed lines of a batch give to a source, in line order
RECURSIVE ItemsFor(_, _)
ItemsFor(lines, ost) ==
    IF lines = <<>> THEN <<>>
    ELSE IF WellFormed(Head(lines)) /\ ItemOf(Head(lines)).ost = ost
         THEN <<ItemOf(Head(lines))>> \o ItemsFor(Tail(lines), ost)
         ELSE ItemsFor(Tail(lines), ost)

BatchOsts(lines) == { ItemOf(lines[i]).ost : i \in { j \in DOMAIN lines : WellFormed(lines[j]) } }

\* C9: malformed intake lines are a local error. Loading a batch appends, for
\* every source, the items of all its well-formed lines in line order to the
\* cache entry of that source, whatever malformed lines lie between them; a
\* line with the separator or without exactly two tokens adds nothing and is
\* counted as skipped; the batch is marked processed.
C9_MalformedLineSkipped ==
    [][ (pc = "load" /\ files # <<>> /\ file_counter' = file_counter + 1) =>
          LET lines == FileLines(Head(files))
              good == { i \in DOMAIN lines : WellFormed(lines[i]) }
          IN /\ Keys(ost_source_cache_dict') = Keys(ost_source_cache_dict) \cup BatchOsts(lines)
             /\ \A ost \in Keys(ost_source_cache_dict') :
                   Get(ost_source_cache_dict', ost) =
                      (IF Has(ost_source_cache_dict, ost)
                       THEN Get(ost_source_cache_dict, ost) ELSE <<>>)
                      \o ItemsFor(lines, ost)
             /\ load_log'.loaded = Cardinality(good)
             /\ load_log'.skipped = Len(lines) - Cardinality(good)
             /\ input_dir'[Head(files)] = "done"
      ]_vars

\* C9 witness: batch b1 was loaded: its malformed second line was skipped and
\* the lines before and after it are in the cache
C9_LoadedAroundMalformed ==
    /\ load_log = [file |-> "b1", loaded |-> 2, skipped |-> 1]
    /\ input_dir["b1"] = "done"
    /\ Has(ost_source_cache_dict, OstA)
    /\ Has(ost_source_cache_dict, OstB)
    /\ Get(ost_source_cache_dict, OstB)[1] = LustreOstMigrateItem(OstB, <<"y">>)

\* C10: shutdown contract. A process that received SIGTERM, at whatever point
\* of its execution, ends with exit code 0.
C10_SigtermExitsZero ==
    (sigterm /\ ~Alive) => pc = "exit0"

\* the step is one of the scheduler itself: not of the environment, and not
\* the delivery of SIGTERM
OwnStep == pc' # pc /\ sigterm' = sigterm

\* C11: an unknown target during a fill-level evaluation is fatal. When a
\* configured destination at start-up (line 112), a newly ingested source
\* (lines 319-322) or a tracked target at a refresh (lines 190-194) is
\* missing from the fill-level mapping, the process exits with code 1; a
\* refresh that completes found every tracked target in its sample; and once
\* the process has exited nothing changes any more: no task, no
\* reconciliation, no retry.
C11_UnknownTargetFatal ==
    [][ /\ ( /\ pc = "targets" /\ OwnStep
             /\ \E i \in DOMAIN ost_target_list :
                   ost_target_list[i] \notin DOMAIN ost_fill_level_dict )
           => pc' = "exit1"
        /\ ( /\ pc = "load" /\ files = <<>> /\ file_counter > 0 /\ OwnStep
             /\ \E ost \in Keys(ost_source_cache_dict) :
                   /\ Get(ost_source_cache_dict, ost) # <<>>
                   /\ ~Has(ost_source_state_dict, ost)
                   /\ ost \notin DOMAIN ost_fill_level_dict )
           => pc' = "exit1"
        /\ ( /\ pc = "refresh_source" /\ OwnStep
             /\ \E ost \in Keys(ost_source_state_dict) : ost \notin DOMAIN ost_fill_level_dict )
           => pc' = "exit1"
        /\ ( /\ pc = "refresh_target" /\ OwnStep
             /\ \E ost \in Keys(ost_target_state_dict) : ost \notin DOMAIN ost_fill_level_dict )
           => pc' = "exit1"
        /\ ~Alive => UNCHANGED vars
      ]_vars

\* C11 witness: the process failed, without a SIGTERM, after it had emitted a
\* task: the task is still queued and will never be reconciled
C11_FailedWithTaskQueued ==
    /\ pc = "exit1"
    /\ ~sigterm
    /\ task_queue # <<>>

\* C12: a completion signal that does not match an in-flight state is fatal.
\* The scheduler's step on a popped correlation id that does not split into
\* two tokens at ":", on a source whose source-role state is absent, READY or
\* LOCKED, or on a destination whose destination-role state is absent, READY
\* or LOCKED, ends the process with exit code 1.
C12_UnmatchedSignalFatal ==
    [][ /\ ( /\ pc = "rc_pop" /\ OwnStep
             /\ Len(split_on(Head(result_queue), ":")) # 2 )
           => pc' = "exit1"
        /\ ( /\ pc = "rc_source" /\ OwnStep
             /\ \/ ~Has(ost_source_state_dict, finished[1])
                \/ Get(ost_source_state_dict, finished[1]) \notin InFlightState )
           => pc' = "exit1"
        /\ ( /\ pc = "rc_target" /\ OwnStep
             /\ \/ ~Has(ost_target_state_dict, finished[2])
                \/ Get(ost_target_state_dict, finished[2]) \notin InFlightState )
           => pc' = "exit1"
      ]_vars

\* C12 witness: the source of a signal was in flight and has been advanced,
\* and its destination, which the scheduler is about to advance, is READY
C12_DestinationNotInFlight ==
    /\ pc = "rc_target"
    /\ Has(ost_target_state_dict, finished[2])
    /\ Get(ost_target_state_dict, finished[2]) = READY

\* C13: each intake batch is merged exactly once. A scan lists pending
\* batches only, each once; the cache grows only in the step that loads the
\* first listed batch, which is pending and is marked processed in that same
\* step, before the next one is read; and a processed batch stays processed.
C13_MergedOnce ==
    [][ /\ (pc = "scan" /\ pc' = "load") =>
              /\ \A i \in DOMAIN files' : input_dir[files'[i]] = "input"
              /\ \A i, j \in DOMAIN files' : files'[i] = files'[j] => i = j
        /\ (pc = "load" /\ file_counter' = file_counter + 1) =>
              /\ input_dir[Head(files)] = "input"
              /\ input_dir' = [input_dir EXCEPT ![Head(files)] = "done"]
              /\ files' = Tail(files)
        /\ ( \E ost \in Keys(ost_source_cache_dict') :
                \/ ~Has(ost_source_cache_dict, ost)
                \/ Len(Get(ost_source_cache_dict', ost)) > Len(Get(ost_source_cache_dict, ost)) )
           => (pc = "load" /\ file_counter' = file_counter + 1)
        /\ \A n \in DOMAIN input_dir : input_dir[n] = "done" => input_dir'[n] = "done"
      ]_vars

\* C13 witness: a re-scan has found no pending batch: b1, merged at an
\* earlier scan, is left alone, and its item for B is in the cache once
C13_ProcessedBatchLeftAlone ==
    /\ pc = "load"
    /\ ~in_startup
    /\ files = <<>>
    /\ file_counter = 0
    /\ input_dir["b1"] = "done"
    /\ Has(ost_source_cache_dict, OstB)
    /\ Get(ost_source_cache_dict, OstB) = <<LustreOstMigrateItem(OstB, <<"y">>)>>

\* C14: lock discipline of the scheduler. The scheduler never holds both
\* locks, holds none at the loop top or after the process ended, and no step
\* taken while it holds a lock changes a state mapping.
C14_LockDiscipline ==
    [][ /\ ~(lock_task_queue = "generator" /\ lock_result_queue = "generator")
        /\ pc \in {"loop", "exit0", "exit1"} =>
              (lock_task_queue = "free" /\ lock_result_queue = "free")
        /\ ( /\ Alive'
             /\ (lock_task_queue = "generator" \/ lock_result_queue = "generator") )
           => UNCHANGED << ost_source_state_dict, ost_target_state_dict >>
      ]_vars

\* C15: a fill-level refresh re-derives every tracked state from the new
\* sample. Right after a refresh, every target of the source-role mapping
\* that is not BLOCKED or PENDING_LOCK is READY if its new fill level is above
\* the threshold and LOCKED otherwise, every target of the destination-role
\* mapping that is not BLOCKED or PENDING_LOCK is READY if its new fill level
\* is below the threshold and LOCKED otherwise (a level equal to the
\* threshold gives LOCKED in both roles), and no entry is added or removed.
C15_RefreshRederives ==
    [][ /\ (pc = "refresh_source" /\ pc' = "refresh_target") =>
              ost_source_state_dict'.keys = ost_source_state_dict.keys
        /\ (pc = "refresh_target" /\ pc' = "reload") =>
              /\ ost_target_state_dict'.keys = ost_target_state_dict.keys
              /\ \A ost \in Keys(ost_source_state_dict') :
                    Get(ost_source_state_dict', ost) \notin InFlightState =>
                       Get(ost_source_state_dict', ost) =
                          IF ost_fill_level_dict'[ost] > ost_fill_threshold
                          THEN READY ELSE LOCKED
              /\ \A ost \in Keys(ost_target_state_dict') :
                    Get(ost_target_state_dict', ost) \notin InFlightState =>
                       Get(ost_target_state_dict', ost) =
                          IF ost_fill_level_dict'[ost] < ost_fill_threshold
                          THEN READY ELSE LOCKED
      ]_vars

\* C15 witness: the one refresh so far found B at the threshold: B is LOCKED
\* as a source and as a destination, and C, which has a task in flight, went
\* from BLOCKED to PENDING_LOCK
C15_RefreshedAtThreshold ==
    /\ pc = "reload"
    /\ timers = MaxTimers - 1
    /\ ost_fill_level_dict[OstB] = ost_fill_threshold
    /\ Has(ost_source_state_dict, OstB)
    /\ Get(ost_source_state_dict, OstB) = LOCKED
    /\ Get(ost_target_state_dict, OstB) = LOCKED
    /\ Get(ost_target_state_dict, OstC) = PENDING_LOCK

\* no task that the scheduler built or emitted has the same OST as source
\* and as destination
NoSelfTask ==
    /\ task # NoTask => task.source # task.target
    /\ \A t \in InFlight : tid_source(t[3]) # tid_target(t[3])

\* no OST is READY in the source role and in the destination role
NotReadyInBothRoles ==
    \A ost \in Keys(ost_source_state_dict) \cap Keys(ost_target_state_dict) :
       ~( /\ Get(ost_source_state_dict, ost) = READY
          /\ Get(ost_target_state_dict, ost) = READY )

\* C16 as stated: no self-migration, and in any reachable state no OST is
\* READY in the source role and in the destination role at the same time.
C16_NeverReadyInBothRoles ==
    /\ NoSelfTask
    /\ NotReadyInBothRoles

\* C16, amended: no self-migration. No task that the scheduler built or
\* emitted has the same OST as source and as destination, and no OST is READY
\* in the source role and in the destination role at the same time in any
\* state other than those between the re-derivation of the source states
\* (lines 190-191) and of the destination states (lines 193-194) of a refresh
\* and those a SIGTERM has interrupted; so it is in every state of a pairing
\* pass.
C16_NoSelfMigration ==
    /\ NoSelfTask
    /\ (pc # "refresh_target" /\ ~sigterm) => NotReadyInBothRoles
    /\ pc \in {"pair", "lock", "push", "block"} => NotReadyInBothRoles

\* C16 witness: B has a task in flight as a source and is, after a refresh,
\* READY as a destination, while a pairing pass visits the sources
C16_SourceInFlightDestinationReady ==
    /\ pc = "pair"
    /\ Has(ost_source_state_dict, OstB)
    /\ Get(ost_source_state_dict, OstB) = PENDING_LOCK
    /\ Get(ost_target_state_dict, OstB) = READY
    /\ \E t \in InFlight : tid_source(t[3]) = OstB

\* C17: with executors that complete each emitted task at most once and
\* signal nothing else, reconciliation never fails. Every popped correlation
\* id splits into a source and a destination, the source is present and
\* BLOCKED or PENDING_LOCK when line 167 looks at it, the destination is
\* present and BLOCKED or PENDING_LOCK when line 168 looks at it, and the
\* process exits with code 1 only after a SIGTERM.
C17_ReconciliationNeverFails ==
    /\ pc = "rc_pop" =>
          /\ result_queue # <<>>
          /\ Len(split_on(Head(result_queue), ":")) = 2
    /\ pc = "rc_source" =>
          /\ Has(ost_source_state_dict, finished[1])
          /\ Get(ost_source_state_dict, finished[1]) \in InFlightState
    /\ pc = "rc_target" =>
          /\ Has(ost_target_state_dict, finished[2])
          /\ Get(ost_target_state_dict, finished[2]) \in InFlightState
    /\ pc = "exit1" => sigterm

\* C17 witness: an executor has completed the task that the scheduler pushed
\* before the scheduler has set its pair to BLOCKED
C17_CompletedBeforeBlocked ==
    /\ pc = "block"
    /\ Get(ost_source_state_dict, task.source) = READY
    /\ \E i \in DOMAIN result_queue : result_queue[i] = task.tid

\* the OSTs that are BLOCKED or PENDING_LOCK in a mapping
InFlightOsts(ost_state_dict) ==
    { ost \in Keys(ost_state_dict) : Get(ost_state_dict, ost) \in InFlightState }

TasksFrom(ost) == { t \in InFlight : tid_source(t[3]) = ost }
TasksTo(ost) == { t \in InFlight : tid_target(t[3]) = ost }

\* C18: no target stays blocked without a task. At the end of a pairing pass
\* and of a completion reconciliation, an OST is BLOCKED or PENDING_LOCK in
\* the source role exactly when one emitted, unreconciled task names it as
\* source (and no OST is named by two), likewise in the destination role;
\* the in-flight sources, the in-flight destinations and the unreconciled
\* tasks are equally many.
C18_BlockedIffInFlight ==
    ( \/ pc = "drain"
      \/ (pc = "pair" /\ source_idx > Len(ost_source_cache_dict.keys)) ) =>
        /\ \A ost \in OSTs :
              /\ Cardinality(TasksFrom(ost)) =
                    IF ost \in InFlightOsts(ost_source_state_dict) THEN 1 ELSE 0
              /\ Cardinality(TasksTo(ost)) =
                    IF ost \in InFlightOsts(ost_target_state_dict) THEN 1 ELSE 0
        /\ Cardinality(InFlightOsts(ost_source_state_dict)) = Cardinality(InFlight)
        /\ Cardinality(InFlightOsts(ost_target_state_dict)) = Cardinality(InFlight)

\* C18 witness: a reconciliation or a pass has ended with two tasks
\* unreconciled, one at an executor and one signalled, and with a
\* PENDING_LOCK source among the two in-flight sources
C18_TwoUnreconciled ==
    /\ pc = "drain"
    /\ Cardinality(running) = 1
    /\ Len(result_queue) = 1
    /\ Cardinality(InFlightOsts(ost_source_state_dict)) = 2
    /\ \E ost \in Keys(ost_source_state_dict) : Get(ost_source_state_dict, ost) = PENDING_LOCK

\* the scheduler is in the pairing pass, the reconciliation or at the timers
InLoopBody ==
    pc \in {"pair", "lock", "push", "block", "drain", "rc_pop", "rc_source", "rc_target",
            "timers", "refresh_source", "refresh_target", "reload"}

\* C19: the source cache and the source-role state mapping have the same
\* keys while the pairing pass, the reconciliation and the refresh run; when
\* the pruning step starts every drained source has a state; and the pruning
\* step removes a source from both mappings or from none, and only a source
\* whose cache is empty and whose state is READY or LOCKED.
C19_SameSourceKeys ==
    [][ /\ InLoopBody => Keys(ost_source_cache_dict) = Keys(ost_source_state_dict)
        /\ (pc = "load" /\ files = <<>> /\ file_counter > 0) =>
              \A ost \in Keys(ost_source_cache_dict) :
                 Get(ost_source_cache_dict, ost) = <<>> => Has(ost_source_state_dict, ost)
        /\ (pc = "load" /\ files = <<>> /\ pc' = "loop" /\ OwnStep) =>
              /\ Keys(ost_source_cache_dict') = Keys(ost_source_state_dict')
              /\ \A ost \in Keys(ost_source_cache_dict) \ Keys(ost_source_cache_dict') :
                    /\ Get(ost_source_cache_dict, ost) = <<>>
                    /\ Get(ost_source_state_dict, ost) \in {READY, LOCKED}
      ]_vars

\* C19 witness: a pairing pass runs after A was pruned from both mappings,
\* with B in both
C19_PrunedFromBoth ==
    /\ pc = "pair"
    /\ input_dir["b1"] = "done"
    /\ ~Has(ost_source_cache_dict, OstA)
    /\ ~Has(ost_source_state_dict, OstA)
    /\ Has(ost_source_cache_dict, OstB)
    /\ Has(ost_source_state_dict, OstB)

\* every batch is merged, no cache holds an item and no popped item waits
\* for its push
CachesDrained ==
    /\ \A n \in DOMAIN input_dir : input_dir[n] = "done"
    /\ \A ost \in Keys(ost_source_cache_dict) : Get(ost_source_cache_dict, ost) = <<>>
    /\ task = NoTask

\* C20: progress under greedy first-fit. With every batch there at the
\* start, samples that keep the sources eligible and some destination
\* eligible, executors that complete every task and a scheduler loop that
\* keeps running, every item is eventually emitted in a task, and the caches
\* are empty from then on.
C20_EveryItemEmitted == <>[]CachesDrained

\* C20 witness: all items of both sources were emitted and all tasks
\* were reconciled
C20_AllEmittedAndReconciled ==
    /\ CachesDrained
    /\ pc = "pair"
    /\ Cardinality(Keys(ost_source_cache_dict)) = 2
    /\ InFlight = {}

====
